---- MODULE Spec2Model ----
(***************************************************************************)
(* A model of logql's query execution engine (src/src/engine.rs,           *)
(* src/src/engine/filter.rs), its record parser (src/src/parser.rs) and    *)
(* its schema validation (src/src/schema.rs).                              *)
(*                                                                         *)
(* Text (column names, string values, literal texts) is a sequence of      *)
(* ASCII codes, so that lexical comparison, case folding and the           *)
(* str -> number / str -> instant conversions are computed, not assumed.   *)
(* f32/f64 values are held in tenths (2.5 is 25); instants are held in     *)
(* hours since day 0, UTC.                                                 *)
(***************************************************************************)
EXTENDS Integers, Sequences, FiniteSets, TLC

VARIABLES
    schema,      \* Parser.schema.columns: sequence of [name, type, multiline]
    statement,   \* Engine.statement / TableResult.statement: Option<Statement>
    columns,     \* TableResult.columns
    events,      \* TableResult.events
    pc,          \* the stage of TableResult::process that runs next
    outcome,     \* "running", then the value process() returns: Ok, Err(..), or a panic
    filterImpl,  \* which TableResult::filter ran: "engine.rs" or "filter.rs"
    hist,        \* history: one entry per stage that ran, with the result it received
    config,      \* what the program is started with: schema definition, pattern,
                 \* the SQL parser's result for the query text, input lines
    multiline_column, \* Parser.multiline_column: Option<String>, None is <<>>
    engine_columns,   \* Engine.columns
    input,       \* the records parsed from the lines the execution under way was given
    runs         \* the executions completed so far: the lines given, what was returned

vars == <<schema, statement, columns, events, pc, outcome, filterImpl, hist,
          config, multiline_column, engine_columns, input, runs>>

----------------------------------------------------------------------------
(* Bounds of the model *)

\* longest record sequence handed to the pipeline
MaxEvents == 2
\* largest LIMIT / OFFSET literal
MaxN == 3

----------------------------------------------------------------------------
(* Text *)

IsDigit(c) == c \in 48..57

RECURSIVE StrLess(_, _)
\* Rust's str ordering: byte-wise lexicographic
StrLess(a, b) ==
    IF b = <<>> THEN FALSE
    ELSE IF a = <<>> THEN TRUE
    ELSE IF Head(a) # Head(b) THEN Head(a) < Head(b)
    ELSE StrLess(Tail(a), Tail(b))

\* u8::to_ascii_lowercase
to_ascii_lowercase(c) == IF c \in 65..90 THEN c + 32 ELSE c

\* str::eq_ignore_ascii_case
eq_ignore_ascii_case(a, b) ==
    /\ Len(a) = Len(b)
    /\ \A k \in 1..Len(a) : to_ascii_lowercase(a[k]) = to_ascii_lowercase(b[k])

\* i32::MAX: the largest value of Type::Int32, and the largest integer this
\* model computes with (larger parsed values saturate here, see Saturated)
I32_MAX == 2147483647
\* the decimal texts of i32::MAX, i64::MAX and usize::MAX (64-bit)
I32_MAX_TEXT   == <<50,49,52,55,52,56,51,54,52,55>>
I64_MAX_TEXT   == <<57,50,50,51,51,55,50,48,51,54,56,53,52,55,55,53,56,48,55>>
USIZE_MAX_TEXT == <<49,56,52,52,54,55,52,52,48,55,51,55,48,57,53,53,49,54,49,53>>

DigitsOnly(s) == \A k \in 1..Len(s) : IsDigit(s[k])

RECURSIVE StripZeros(_)
\* s without its leading '0' characters
StripZeros(s) == IF s # <<>> /\ Head(s) = 48 THEN StripZeros(Tail(s)) ELSE s

\* the number written by the digits s is at most the one written by max_text
DecimalFits(s, max_text) ==
    LET z == StripZeros(s) IN
    \/ Len(z) < Len(max_text)
    \/ Len(z) = Len(max_text) /\ ~StrLess(max_text, z)

RECURSIVE Saturated(_, _)
\* the number written by the digits s, saturating at I32_MAX
Saturated(s, acc) ==
    IF s = <<>> THEN acc
    ELSE LET d == Head(s) - 48 IN
         IF acc > (I32_MAX - d) \div 10 THEN I32_MAX
         ELSE Saturated(Tail(s), 10 * acc + d)

\* <unsigned or signed integer>::from_str on the text of an unsigned literal:
\* Err on the empty text, on any character that is no digit ('.' included)
\* and on a number above the type's maximum.
uint_from_str(s, max_text) ==
    IF s # <<>> /\ DigitsOnly(s) /\ DecimalFits(s, max_text)
    THEN [ok |-> TRUE, v |-> Saturated(s, 0)]
    ELSE [ok |-> FALSE, v |-> 0]

i32_from_str(s)   == uint_from_str(s, I32_MAX_TEXT)
i64_from_str(s)   == uint_from_str(s, I64_MAX_TEXT)
usize_from_str(s) == uint_from_str(s, USIZE_MAX_TEXT)

\* position of the first '.' of s, or 0
DotAt(s) == IF \E k \in 1..Len(s) : s[k] = 46
            THEN CHOOSE k \in 1..Len(s) : s[k] = 46 /\ \A j \in 1..(k-1) : s[j] # 46
            ELSE 0

\* f32::from_str / f64::from_str on digits[.digits]: the value in tenths (the
\* texts of this model carry at most one fractional digit; a value above
\* I32_MAX tenths is read as I32_MAX).  An integer text is accepted ("2" is 2.0).
float_from_str(s) ==
    LET dot == DotAt(s)
        ip  == IF dot = 0 THEN s ELSE SubSeq(s, 1, dot - 1)
        fp  == IF dot = 0 THEN <<>> ELSE SubSeq(s, dot + 1, Len(s))
    IN IF (ip = <<>> /\ fp = <<>>) \/ ~DigitsOnly(ip) \/ ~DigitsOnly(fp)
       THEN [ok |-> FALSE, v |-> 0]
       ELSE LET whole == Saturated(ip, 0)
                tenth == IF fp = <<>> THEN 0 ELSE Head(fp) - 48
            IN [ok |-> TRUE,
                v |-> IF whole > (I32_MAX - tenth) \div 10 THEN I32_MAX
                      ELSE 10 * whole + tenth]

\* str::parse::<DateTime<Utc>>() on an RFC 3339 text, abridged to the fixed-width
\* form <day digit> 'T' <two hour digits> ('Z' | ('+'|'-') <offset-hours digit>):
\* the local time is converted to the UTC instant by subtracting the offset.
\* faulty variant: the offset of the text is ignored, the local time taken for UTC
datetime_from_str_ignores_offset(s) ==
    IF Len(s) \in {5, 6} /\ IsDigit(s[1]) /\ s[2] = 84 /\ IsDigit(s[3]) /\ IsDigit(s[4])
    THEN [ok |-> TRUE, v |-> 24 * (s[1] - 48) + 10 * (s[3] - 48) + (s[4] - 48)]
    ELSE [ok |-> FALSE, v |-> 0]

datetime_from_str(s) ==
    LET wellFormed ==
            /\ Len(s) \in {5, 6}
            /\ IsDigit(s[1]) /\ s[2] = 84 /\ IsDigit(s[3]) /\ IsDigit(s[4])
            /\ 10 * (s[3] - 48) + (s[4] - 48) <= 23
            /\ IF Len(s) = 5 THEN s[5] = 90 ELSE s[5] \in {43, 45} /\ IsDigit(s[6])
        local == 24 * (s[1] - 48) + 10 * (s[3] - 48) + (s[4] - 48)
        off   == IF Len(s) = 5 THEN 0
                 ELSE IF s[5] = 43 THEN s[6] - 48 ELSE 0 - (s[6] - 48)
    IN IF wellFormed THEN [ok |-> TRUE, v |-> local - off] ELSE [ok |-> FALSE, v |-> 0]

----------------------------------------------------------------------------
(* parser::values::Type, schema::ColumnType and sqlparser's Value *)

ColumnTypes == {"String", "Int32", "Int64", "Bool", "Float", "Double", "DateTime"}

\* One parser::values::Type value: the variant t and its payload
\* (i for the numeric variants and for DateTime, s for String, b for Bool).
TypeString(x)   == [t |-> "String",   i |-> 0, s |-> x,    b |-> FALSE]
TypeInt32(x)    == [t |-> "Int32",    i |-> x, s |-> <<>>, b |-> FALSE]
TypeInt64(x)    == [t |-> "Int64",    i |-> x, s |-> <<>>, b |-> FALSE]
TypeBool(x)     == [t |-> "Bool",     i |-> 0, s |-> <<>>, b |-> x]
TypeFloat(x)    == [t |-> "Float",    i |-> x, s |-> <<>>, b |-> FALSE]
TypeDouble(x)   == [t |-> "Double",   i |-> x, s |-> <<>>, b |-> FALSE]
TypeDateTime(x) == [t |-> "DateTime", i |-> x, s |-> <<>>, b |-> FALSE]

\* sqlparser::ast::Value: Number(text, long), SingleQuotedString(text), Boolean(b), Null.
\* The flag of Number is the trailing-L "long" flag; "2" and "2.5" are both Number(_, false).
ValueNumber(text, long)         == [k |-> "Number", s |-> text, long |-> long, b |-> FALSE]
ValueSingleQuotedString(text)   == [k |-> "SingleQuotedString", s |-> text, long |-> FALSE, b |-> FALSE]
ValueBoolean(x)                 == [k |-> "Boolean", s |-> <<>>, long |-> FALSE, b |-> x]
ValueNull                       == [k |-> "Null", s |-> <<>>, long |-> FALSE, b |-> FALSE]

----------------------------------------------------------------------------
(* Results of the per-record comparison closures *)

Keep(x) == [k |-> "Ok", keep |-> x]
Panic   == [k |-> "Panic", keep |-> FALSE]

\* faulty variant: a mismatch counts as a record that does not match
TypeMismatch_drops_row(schema_type, event_type, literal) == Keep(FALSE)

\* Err(Error::TypeMismatch(schema_type, event_type.clone(), literal.clone()))
TypeMismatch(schema_type, event_type, literal) ==
    [k |-> "TypeMismatch", keep |-> FALSE,
     column_type |-> schema_type, value |-> event_type, literal |-> literal]

\* the six comparisons on i32 / i64 / f32 / f64 / DateTime<Utc> payloads
NumCmp(op, a, b) ==
    CASE op = "Eq"    -> a = b
      [] op = "NotEq" -> a # b
      [] op = "Lt"    -> a < b
      [] op = "LtEq"  -> a <= b
      [] op = "Gt"    -> a > b
      [] op = "GtEq"  -> a >= b

\* the six comparisons on String payloads
StrCmp(op, a, b) ==
    CASE op = "Eq"    -> a = b
      [] op = "NotEq" -> a # b
      [] op = "Lt"    -> StrLess(a, b)
      [] op = "LtEq"  -> StrLess(a, b) \/ a = b
      [] op = "Gt"    -> StrLess(b, a)
      [] op = "GtEq"  -> StrLess(b, a) \/ a = b

\* x.unwrap() of a parse result, then the comparison
UnwrapThen(op, value, parsed) ==
    IF parsed.ok THEN Keep(NumCmp(op, value, parsed.v)) ELSE Panic

\* The match of one comparison closure on (schema_type, event_type, literal).
\* The arms are those of the source, the Bool arm present only where the
\* source has it (has_bool).
MatchArms(op, has_bool, schema_type, event_type, literal) ==
    CASE schema_type = "String" /\ event_type.t = "String" /\ literal.k = "SingleQuotedString"
           -> Keep(StrCmp(op, event_type.s, literal.s))
      [] schema_type = "Int32" /\ event_type.t = "Int32" /\ literal.k = "Number" /\ ~literal.long
           -> UnwrapThen(op, event_type.i, i32_from_str(literal.s))
      [] schema_type = "Int64" /\ event_type.t = "Int64" /\ literal.k = "Number" /\ ~literal.long
           -> UnwrapThen(op, event_type.i, i64_from_str(literal.s))
      [] schema_type = "Float" /\ event_type.t = "Float" /\ literal.k = "Number" /\ ~literal.long
           -> UnwrapThen(op, event_type.i, float_from_str(literal.s))
      [] schema_type = "Double" /\ event_type.t = "Double" /\ literal.k = "Number" /\ ~literal.long
           -> UnwrapThen(op, event_type.i, float_from_str(literal.s))
      [] has_bool /\ schema_type = "Bool" /\ event_type.t = "Bool" /\ literal.k = "Boolean"
           -> Keep(IF op = "Eq" THEN event_type.b = literal.b ELSE event_type.b # literal.b)
      [] schema_type = "DateTime" /\ event_type.t = "DateTime" /\ literal.k = "SingleQuotedString"
           -> UnwrapThen(op, event_type.i, datetime_from_str(literal.s))
      [] OTHER -> TypeMismatch(schema_type, event_type, literal)

\* the closures of the six filter_column_*_literal functions
equals_closure(schema_type, event_type, literal) ==
    MatchArms("Eq", TRUE, schema_type, event_type, literal)
does_not_equal_closure(schema_type, event_type, literal) ==
    MatchArms("NotEq", TRUE, schema_type, event_type, literal)
less_than_closure(schema_type, event_type, literal) ==
    MatchArms("Lt", FALSE, schema_type, event_type, literal)
greater_than_closure(schema_type, event_type, literal) ==
    MatchArms("Gt", FALSE, schema_type, event_type, literal)
less_than_or_equal_to_closure(schema_type, event_type, literal) ==
    MatchArms("LtEq", FALSE, schema_type, event_type, literal)
\* faulty variant: >= also takes the Bool arm
greater_than_or_equal_to_closure_with_bool(schema_type, event_type, literal) ==
    MatchArms("GtEq", TRUE, schema_type, event_type, literal)
greater_than_or_equal_to_closure(schema_type, event_type, literal) ==
    MatchArms("GtEq", FALSE, schema_type, event_type, literal)

\* the closure a filter_column_<which>_literal function passes on
Closure(which, schema_type, event_type, literal) ==
    CASE which = "Eq"    -> equals_closure(schema_type, event_type, literal)
      [] which = "NotEq" -> does_not_equal_closure(schema_type, event_type, literal)
      [] which = "Lt"    -> less_than_closure(schema_type, event_type, literal)
      [] which = "Gt"    -> greater_than_closure(schema_type, event_type, literal)
      [] which = "LtEq"  -> less_than_or_equal_to_closure(schema_type, event_type, literal)
      [] which = "GtEq"  -> greater_than_or_equal_to_closure(schema_type, event_type, literal)

----------------------------------------------------------------------------
(* sqlparser's AST, as far as the engine reads it *)

\* Expr::Identifier(Ident { value }), Expr::Value(literal), and any other Expr
\* (a nested BinaryOp, a UnaryOp such as a negated number, a Function, ...)
ExprIdentifier(name) == [e |-> "Identifier", value |-> name, lit |-> ValueNull]
ExprValue(literal)   == [e |-> "Value", value |-> <<>>, lit |-> literal]
ExprOther            == [e |-> "Other", value |-> <<>>, lit |-> ValueNull]
\* Option::None where an Expr may stand (query.limit, query.offset)
ExprNone             == [e |-> "None", value |-> <<>>, lit |-> ValueNull]

\* select.selection: None, Some(Expr::BinaryOp { left, op, right }), Some(other Expr)
SelectionNone == [e |-> "None", left |-> ExprOther, op |-> "Eq", right |-> ExprOther]
BinaryOp(left, op, right) == [e |-> "BinaryOp", left |-> left, op |-> op, right |-> right]
SelectionOther == [e |-> "Other", left |-> ExprOther, op |-> "Eq", right |-> ExprOther]

\* SelectItem
UnnamedExpr(expr)          == [item |-> "UnnamedExpr", expr |-> expr, alias |-> <<>>]
ExprWithAlias(expr, alias) == [item |-> "ExprWithAlias", expr |-> expr, alias |-> alias]
Wildcard                   == [item |-> "Wildcard", expr |-> ExprOther, alias |-> <<>>]
QualifiedWildcard          == [item |-> "QualifiedWildcard", expr |-> ExprOther, alias |-> <<>>]

\* Statement::Query(Query { body: SetExpr::Select(Select { projection, selection }),
\*                          order_by, limit, offset })
Select(projection, selection) ==
    [kind |-> "Select", projection |-> projection, selection |-> selection]
\* a query body that is no Select (SetExpr::Values, SetExpr::SetOperation, ...)
BodyOther == [kind |-> "Other", projection |-> <<>>, selection |-> SelectionNone]
Query(body, order_by, limit, offset) ==
    [kind |-> "Query", body |-> body, order_by |-> order_by,
     limit |-> limit, offset |-> offset]
\* a statement that is no query (Statement::Insert, ...)
StatementOther == [kind |-> "Other", body |-> BodyOther, order_by |-> <<>>,
                   limit |-> ExprNone, offset |-> ExprNone]
\* Engine.statement = None (Engine::new)
StatementNone == [kind |-> "None", body |-> BodyOther, order_by |-> <<>>,
                  limit |-> ExprNone, offset |-> ExprNone]

----------------------------------------------------------------------------
(* Results of a stage *)

\* Ok(self)
Ok(cols, evs) == [k |-> "Ok", columns |-> cols, events |-> evs]
\* Err(Error::InvalidQuery(statement.clone()))
InvalidQuery(stmt) == [k |-> "InvalidQuery", statement |-> stmt]

RECURSIVE Materialize_in_descending_order(_, _, _)
\* faulty variant: the records are collected by walking the index set, here
\* from its largest index down
Materialize_in_descending_order(evs, idx, n) ==
    IF n > Len(evs) THEN <<>>
    ELSE Materialize_in_descending_order(evs, idx, n + 1)
           \o (IF n \in idx THEN <<evs[n]>> ELSE <<>>)

\* the elements of evs at the positions of idx, in ascending position order
RECURSIVE Materialize(_, _, _)
Materialize(evs, idx, n) ==
    IF n > Len(evs) THEN <<>>
    ELSE (IF n \in idx THEN <<evs[n]>> ELSE <<>>) \o Materialize(evs, idx, n + 1)

\* smallest element of a non-empty set of integers
Min(S) == CHOOSE x \in S : \A y \in S : x <= y

----------------------------------------------------------------------------
(* src/src/engine/filter.rs *)

\* schema.columns.iter().find(|c| c.name.eq_ignore_ascii_case(column)).unwrap().type
get_schema_type_for_column(sch, column) ==
    LET hits == {n \in 1..Len(sch) : eq_ignore_ascii_case(sch[n].name, column)}
    IN IF hits = {} THEN [ok |-> FALSE, type |-> "String"]
       ELSE [ok |-> TRUE, type |-> sch[Min(hits)].type]

\* faulty variant: the scan stops before the last record
filter_column_with_literal_skips_last(sch, evs, column, literal, which) ==
    LET schema_type == get_schema_type_for_column(sch, column)
        res == [n \in 1..Len(evs) |->
                   IF column \in DOMAIN evs[n].values
                   THEN Closure(which, schema_type.type, evs[n].values[column], literal)
                   ELSE Panic]
        bad == {n \in 1..Len(evs) : res[n].k # "Ok"}
    IN IF ~schema_type.ok THEN [k |-> "Panic"]
       ELSE IF bad # {} THEN res[Min(bad)]
       ELSE [k |-> "Ok", indexes |-> {n \in 1..(Len(evs) - 1) : res[n].keep}]

\* The surviving index set of one comparison, or the first failure met while
\* scanning the records in order.  Positions are 1-based here, 0-based in Rust.
filter_column_with_literal(sch, evs, column, literal, which) ==
    LET schema_type == get_schema_type_for_column(sch, column)
        res == [n \in 1..Len(evs) |->
                   IF column \in DOMAIN evs[n].values
                   THEN Closure(which, schema_type.type, evs[n].values[column], literal)
                   ELSE Panic]
        bad == {n \in 1..Len(evs) : res[n].k # "Ok"}
    IN IF ~schema_type.ok THEN [k |-> "Panic"]
       ELSE IF bad # {} THEN res[Min(bad)]
       ELSE [k |-> "Ok", indexes |-> {n \in 1..Len(evs) : res[n].keep}]

route_filter_column_with_literal(sch, evs, stmt, column, literal, op) ==
    IF op \in {"Eq", "NotEq", "Gt", "Lt", "GtEq", "LtEq"}
    THEN filter_column_with_literal(sch, evs, column, literal, op)
    ELSE InvalidQuery(stmt)

\* faulty variant: the operator is not mirrored
route_filter_literal_with_column_unflipped(sch, evs, stmt, literal, column, op) ==
    IF op \in {"Eq", "NotEq", "Gt", "Lt", "GtEq", "LtEq"}
    THEN filter_column_with_literal(sch, evs, column, literal, op)
    ELSE InvalidQuery(stmt)

route_filter_literal_with_column(sch, evs, stmt, literal, column, op) ==
    CASE op = "Eq"    -> filter_column_with_literal(sch, evs, column, literal, "Eq")
      [] op = "NotEq" -> filter_column_with_literal(sch, evs, column, literal, "NotEq")
      [] op = "Gt"    -> filter_column_with_literal(sch, evs, column, literal, "Lt")
      [] op = "Lt"    -> filter_column_with_literal(sch, evs, column, literal, "Gt")
      [] op = "GtEq"  -> filter_column_with_literal(sch, evs, column, literal, "LtEq")
      [] op = "LtEq"  -> filter_column_with_literal(sch, evs, column, literal, "GtEq")
      [] OTHER        -> InvalidQuery(stmt)

filter_binary_op(sch, evs, stmt, left, op, right) ==
    CASE left.e = "Identifier" /\ right.e = "Value"
           -> route_filter_column_with_literal(sch, evs, stmt, left.value, right.lit, op)
      [] left.e = "Value" /\ right.e = "Identifier"
           -> route_filter_literal_with_column(sch, evs, stmt, left.lit, right.value, op)
      [] OTHER -> InvalidQuery(stmt)

\* faulty variant: a selection that is no binary operation selects every record
process_filter_accepts_any(sch, evs, stmt, expr) ==
    IF expr.e = "BinaryOp"
    THEN filter_binary_op(sch, evs, stmt, expr.left, expr.op, expr.right)
    ELSE [k |-> "Ok", indexes |-> 1..Len(evs)]

process_filter(sch, evs, stmt, expr) ==
    IF expr.e = "BinaryOp"
    THEN filter_binary_op(sch, evs, stmt, expr.left, expr.op, expr.right)
    ELSE InvalidQuery(stmt)

\* TableResult::filter of engine/filter.rs
filter(sch, cols, evs, stmt) ==
    IF stmt.kind = "None" THEN Ok(cols, evs)
    ELSE IF stmt.kind # "Query" THEN InvalidQuery(stmt)
    ELSE IF stmt.body.kind # "Select" THEN InvalidQuery(stmt)
    ELSE IF stmt.body.selection.e = "None" THEN Ok(cols, evs)
    ELSE LET indexes == process_filter(sch, evs, stmt, stmt.body.selection)
         IN IF indexes.k # "Ok" THEN indexes
            ELSE Ok(cols, Materialize(evs, indexes.indexes, 1))

----------------------------------------------------------------------------
(* src/src/engine.rs: the filter stage defined there *)

RECURSIVE KeptEvents(_, _)
\* the events whose closure result is true, in order (filtered_events.push)
KeptEvents(evs, keep) ==
    IF evs = <<>> THEN <<>>
    ELSE (IF Head(keep) THEN <<Head(evs)>> ELSE <<>>) \o KeptEvents(Tail(evs), Tail(keep))

\* TableResult::filter_column_with_literal of engine.rs: consumes the records
\* and returns the result with the kept ones
engine_filter_column_with_literal(sch, cols, evs, column, literal, which) ==
    LET schema_type == get_schema_type_for_column(sch, column)
        res == [n \in 1..Len(evs) |->
                   IF column \in DOMAIN evs[n].values
                   THEN Closure(which, schema_type.type, evs[n].values[column], literal)
                   ELSE Panic]
        bad == {n \in 1..Len(evs) : res[n].k # "Ok"}
    IN IF ~schema_type.ok THEN [k |-> "Panic"]
       ELSE IF bad # {} THEN res[Min(bad)]
       ELSE Ok(cols, KeptEvents(evs, [n \in 1..Len(evs) |-> res[n].keep]))

\* TableResult::filter of engine.rs
engine_filter(sch, cols, evs, stmt) ==
    IF stmt.kind # "Query" THEN Ok(cols, evs)
    ELSE IF stmt.body.kind # "Select" THEN InvalidQuery(stmt)
    ELSE LET sel == stmt.body.selection IN
    CASE sel.e = "None" -> Ok(cols, evs)
      [] sel.e = "BinaryOp" /\ sel.left.e = "Identifier" /\ sel.op = "Eq" /\ sel.right.e = "Value"
           -> engine_filter_column_with_literal(sch, cols, evs, sel.left.value, sel.right.lit, "Eq")
      [] sel.e = "BinaryOp" /\ sel.left.e = "Value" /\ sel.op = "Eq" /\ sel.right.e = "Identifier"
           -> engine_filter_column_with_literal(sch, cols, evs, sel.right.value, sel.left.lit, "Eq")
      [] sel.e = "BinaryOp" /\ sel.left.e = "Identifier" /\ sel.op = "Lt" /\ sel.right.e = "Value"
           -> engine_filter_column_with_literal(sch, cols, evs, sel.left.value, sel.right.lit, "Lt")
      [] sel.e = "BinaryOp" /\ sel.left.e = "Identifier" /\ sel.op = "LtEq" /\ sel.right.e = "Value"
           -> engine_filter_column_with_literal(sch, cols, evs, sel.left.value, sel.right.lit, "LtEq")
      [] sel.e = "BinaryOp" /\ sel.left.e = "Identifier" /\ sel.op = "Gt" /\ sel.right.e = "Value"
           -> engine_filter_column_with_literal(sch, cols, evs, sel.left.value, sel.right.lit, "Gt")
      [] sel.e = "BinaryOp" /\ sel.left.e = "Identifier" /\ sel.op = "GtEq" /\ sel.right.e = "Value"
           -> engine_filter_column_with_literal(sch, cols, evs, sel.left.value, sel.right.lit, "GtEq")
      [] OTHER -> InvalidQuery(stmt)

----------------------------------------------------------------------------
(* src/src/engine.rs: project, offset, limit *)

\* f restricted to its domain without key k (HashMap::remove)
Remove(f, k) == [x \in (DOMAIN f) \ {k} |-> f[x]]
\* HashMap::insert: binds k to v, replacing an earlier binding of k
Insert(f, k, v) == [x \in (DOMAIN f) \cup {k} |-> IF x = k THEN v ELSE f[x]]
\* HashMap::new()
EmptyMap == [x \in {} |-> 0]

RECURSIVE project_items(_, _, _, _, _)
\* The inner loop of project over the SELECT list for one record: values is the
\* record's map as mutated so far, projected_values and inner_columns what has
\* been built so far.
project_items(items, values, projected_values, inner_columns, stmt) ==
    IF items = <<>>
    THEN [k |-> "Ok", values |-> projected_values, inner_columns |-> inner_columns]
    ELSE LET p == Head(items) IN
      CASE p.item = "UnnamedExpr" /\ p.expr.e = "Identifier" ->
             IF p.expr.value \in DOMAIN values
             THEN project_items(Tail(items), Remove(values, p.expr.value),
                                Insert(projected_values, p.expr.value, values[p.expr.value]),
                                Append(inner_columns, p.expr.value), stmt)
             ELSE [k |-> "Panic"]
        [] p.item = "UnnamedExpr" /\ p.expr.e # "Identifier" -> InvalidQuery(stmt)
        [] p.item = "Wildcard" ->
             [k |-> "Wildcard", values |-> values, inner_columns |-> inner_columns]
        [] p.item = "ExprWithAlias" /\ p.expr.e = "Identifier" ->
             IF p.expr.value \in DOMAIN values
             THEN project_items(Tail(items), Remove(values, p.expr.value),
                                Insert(projected_values, p.alias, values[p.expr.value]),
                                Append(inner_columns, p.alias), stmt)
             ELSE [k |-> "Panic"]
        [] OTHER -> InvalidQuery(stmt)

\* faulty variant: self.columns is never replaced
output_columns_never_replaced(cols, res) == cols

\* `columns` is set by the first record only (columns.is_none()), and
\* self.columns is replaced only if some record set it
output_columns(cols, res) == IF res = <<>> THEN cols ELSE res[1].inner_columns

\* faulty variant: the wildcard is an item that selects nothing
project_wildcard_selects_nothing(cols, evs, stmt) ==
    IF stmt.kind # "Query" THEN Ok(cols, evs)
    ELSE IF stmt.body.kind # "Select" THEN InvalidQuery(stmt)
    ELSE Ok(output_columns(cols, [n \in 1..Len(evs) |-> [inner_columns |-> <<>>]]),
            [n \in 1..Len(evs) |-> [evs[n] EXCEPT !.values = EmptyMap]])

\* faulty variant: the loop stops once the first record has set `columns`, and
\* only the records re-keyed so far are kept
project_first_record_only(cols, evs, stmt) ==
    IF stmt.kind # "Query" THEN Ok(cols, evs)
    ELSE IF stmt.body.kind # "Select" THEN InvalidQuery(stmt)
    ELSE Ok(cols, SubSeq(evs, 1, IF evs = <<>> THEN 0 ELSE 1))

\* TableResult::project
project(cols, evs, stmt) ==
    IF stmt.kind # "Query" THEN Ok(cols, evs)
    ELSE IF stmt.body.kind # "Select" THEN InvalidQuery(stmt)
    ELSE
      LET res == [n \in 1..Len(evs) |->
                    project_items(stmt.body.projection, evs[n].values, EmptyMap, <<>>, stmt)]
          stop == {n \in 1..Len(evs) : res[n].k # "Ok"}
      IN IF stop = {}
         THEN Ok(output_columns(cols, res),
                 [n \in 1..Len(evs) |-> [evs[n] EXCEPT !.values = res[n].values]])
         ELSE LET at == Min(stop) IN
              IF res[at].k = "Wildcard"
              \* return Ok(self): the records before `at` are re-keyed already, the
              \* record `at` has lost the values moved out of it, self.columns is
              \* not yet replaced
              THEN Ok(cols,
                      [n \in 1..Len(evs) |->
                         IF n < at THEN [evs[n] EXCEPT !.values = res[n].values]
                         ELSE IF n = at THEN [evs[n] EXCEPT !.values = res[at].values]
                         ELSE evs[n]])
              ELSE res[at]

\* TableResult::offset
offset(cols, evs, stmt) ==
    IF stmt.kind # "Query" THEN Ok(cols, evs)
    ELSE IF stmt.offset.e = "None" THEN Ok(cols, evs)
    ELSE IF stmt.offset.e = "Value" /\ stmt.offset.lit.k = "Number"
    THEN LET n == usize_from_str(stmt.offset.lit.s) IN
         IF ~n.ok THEN [k |-> "Panic"]
         ELSE IF n.v > Len(evs) THEN Ok(cols, <<>>)
         ELSE Ok(cols, SubSeq(evs, n.v + 1, Len(evs)))
    ELSE InvalidQuery(stmt)

\* TableResult::limit
limit(cols, evs, stmt) ==
    IF stmt.kind # "Query" THEN Ok(cols, evs)
    ELSE IF stmt.limit.e = "None" THEN Ok(cols, evs)
    ELSE IF stmt.limit.e = "Value" /\ stmt.limit.lit.k = "Number"
    THEN LET n == usize_from_str(stmt.limit.lit.s) IN
         IF ~n.ok THEN [k |-> "Panic"]
         ELSE LET end == IF n.v < Len(evs) THEN n.v ELSE Len(evs)
              IN Ok(cols, SubSeq(evs, 1, end))
    ELSE InvalidQuery(stmt)

----------------------------------------------------------------------------
(* TableResult::process: self.filter()?.project()?.offset()?.limit() *)

\* faulty variant: the error is noted and the next stage runs all the same
Step_continues_after_error(stage, r, next) ==
    /\ hist' = Append(hist, [stage |-> stage, columns |-> columns, events |-> events])
    /\ IF r.k = "Ok"
       THEN /\ columns' = r.columns
            /\ events' = r.events
            /\ outcome' = IF next = "done" /\ outcome.k = "Running" THEN [k |-> "Ok"] ELSE outcome
       ELSE /\ outcome' = r
            /\ UNCHANGED <<columns, events>>
    /\ pc' = next
    /\ UNCHANGED <<schema, statement, config, multiline_column, engine_columns, input, runs>>

\* one stage: run f's result r at stage `stage`, continue at `next` on Ok,
\* return the error (or abort) otherwise
Step(stage, r, next) ==
    /\ hist' = Append(hist, [stage |-> stage, columns |-> columns, events |-> events])
    /\ IF r.k = "Ok"
       THEN /\ columns' = r.columns
            /\ events' = r.events
            /\ pc' = next
            /\ outcome' = IF next = "done" THEN [k |-> "Ok"] ELSE outcome
       ELSE /\ pc' = "done"
            /\ outcome' = r
            /\ UNCHANGED <<columns, events>>
    /\ UNCHANGED <<schema, statement, config, multiline_column, engine_columns, input, runs>>

\* Engine::execute returns what process returns: the TableResult, or the error
\* alone (self was moved into the failing stage and dropped there)
Returned == IF outcome.k = "Ok" THEN Ok(columns, events) ELSE outcome

\* the filter stage, as defined in engine/filter.rs
Filter ==
    /\ pc = "filter"
    /\ filterImpl = "filter.rs"
    /\ Step("Filter", filter(schema, columns, events, statement), "project")
    /\ UNCHANGED filterImpl

\* the filter stage, as defined in engine.rs
EngineFilter ==
    /\ pc = "filter"
    /\ filterImpl = "engine.rs"
    /\ Step("Filter", engine_filter(schema, columns, events, statement), "project")
    /\ UNCHANGED filterImpl

Project ==
    /\ pc = "project"
    /\ Step("Project", project(columns, events, statement), "offset")
    /\ UNCHANGED filterImpl

Offset ==
    /\ pc = "offset"
    /\ Step("Offset", offset(columns, events, statement), "limit")
    /\ UNCHANGED filterImpl

Limit ==
    /\ pc = "limit"
    /\ Step("Limit", limit(columns, events, statement), "done")
    /\ UNCHANGED filterImpl

Next == Filter \/ EngineFilter \/ Project \/ Offset \/ Limit

----------------------------------------------------------------------------
(* src/src/schema.rs, src/src/parser.rs, Engine::with_query: building the
   parser and the engine, and parsing the lines *)

\* the Error values of construction
InvalidSchema                  == [k |-> "InvalidSchema"]
InvalidMultilineType(name, ty) == [k |-> "InvalidMultilineType", column |-> name, type |-> ty]
TooManyMultilineColumns(names) == [k |-> "TooManyMultilineColumns", columns |-> names]
InvalidRegex                   == [k |-> "InvalidRegex"]
MissingColumns(names)          == [k |-> "MissingColumns", columns |-> names]
SqlParserError(e)              == [k |-> "SqlParserError", error |-> e]
InvalidSqlQuery                == [k |-> "InvalidSqlQuery"]
TooManySqlQueries              == [k |-> "TooManySqlQueries"]

IsMultiline(c) == c.multiline
\* the names of the columns cols, in order
NamesOf(cols) == [n \in 1..Len(cols) |-> cols[n].name]

RECURSIVE validate_from(_, _, _)
\* the loop of Schema::validate from column n on
validate_from(cols, n, multiline_enabled) ==
    IF n > Len(cols) THEN [k |-> "Ok"]
    ELSE LET column == cols[n] IN
         IF column.multiline /\ column.type # "String"
         THEN InvalidMultilineType(column.name, column.type)
         ELSE IF column.multiline
         THEN IF multiline_enabled
              THEN TooManyMultilineColumns(NamesOf(SelectSeq(cols, IsMultiline)))
              ELSE validate_from(cols, n + 1, TRUE)
         ELSE validate_from(cols, n + 1, multiline_enabled)

\* faulty variant: the type of a multiline column is not looked at
validate_without_type_check(cols) ==
    IF Len(SelectSeq(cols, IsMultiline)) > 1
    THEN TooManyMultilineColumns(NamesOf(SelectSeq(cols, IsMultiline)))
    ELSE [k |-> "Ok"]

\* Schema::validate
validate(cols) == validate_from(cols, 1, FALSE)

\* TryFrom<&str> for Schema: definition is what serde_yaml makes of the text
schema_try_from(definition) ==
    IF ~definition.ok THEN InvalidSchema ELSE validate(definition.columns)

\* Parser::verify_columns_exist
verify_columns_exist(cols, capture_names) ==
    LET Missing(c) == c.name \notin capture_names
        non_existent_columns == NamesOf(SelectSeq(cols, Missing))
    IN IF non_existent_columns = <<>> THEN [k |-> "Ok"]
       ELSE MissingColumns(non_existent_columns)

\* Parser::new: regex is what Regex::new makes of schema.regex
parser_new(cols, regex) ==
    IF ~regex.ok THEN InvalidRegex
    ELSE LET ml == SelectSeq(cols, IsMultiline)
             r  == verify_columns_exist(cols, regex.capture_names)
         IN IF r.k # "Ok" THEN r
            ELSE [k |-> "Ok", multiline_column |-> IF ml = <<>> THEN <<>> ELSE ml[1].name]

\* faulty variant: of several statements the last is taken
with_query_takes_last(sql) ==
    IF sql.k = "Err" THEN SqlParserError(sql.error)
    ELSE IF Len(sql.statements) = 0 THEN InvalidSqlQuery
    ELSE [k |-> "Ok", statement |-> sql.statements[Len(sql.statements)]]

\* Engine::with_query: sql is what SqlParser::parse_sql makes of the query text
with_query(sql) ==
    IF sql.k = "Err" THEN SqlParserError(sql.error)
    ELSE IF Len(sql.statements) = 0 THEN InvalidSqlQuery
    ELSE IF Len(sql.statements) = 1
    THEN [k |-> "Ok", statement |-> sql.statements[Len(sql.statements)]]
    ELSE TooManySqlQueries

\* bool::from_str: "true" or "false", nothing else
bool_from_str(s) ==
    IF s = <<116, 114, 117, 101>> THEN [ok |-> TRUE, v |-> TRUE]
    ELSE IF s = <<102, 97, 108, 115, 101>> THEN [ok |-> TRUE, v |-> FALSE]
    ELSE [ok |-> FALSE, v |-> FALSE]

\* the match of parse_line on column.type: the captured text as a value of the
\* column's type; ok is FALSE where from_str returns Err (and unwrap aborts)
typed_value(ty, value) ==
    CASE ty = "String"   -> [ok |-> TRUE, v |-> TypeString(value)]
      [] ty = "Int32"    -> LET r == i32_from_str(value) IN [ok |-> r.ok, v |-> TypeInt32(r.v)]
      [] ty = "Int64"    -> LET r == i64_from_str(value) IN [ok |-> r.ok, v |-> TypeInt64(r.v)]
      [] ty = "Bool"     -> LET r == bool_from_str(value) IN [ok |-> r.ok, v |-> TypeBool(r.v)]
      [] ty = "Float"    -> LET r == float_from_str(value) IN [ok |-> r.ok, v |-> TypeFloat(r.v)]
      [] ty = "Double"   -> LET r == float_from_str(value) IN [ok |-> r.ok, v |-> TypeDouble(r.v)]
      [] ty = "DateTime" -> LET r == datetime_from_str(value) IN [ok |-> r.ok, v |-> TypeDateTime(r.v)]

\* Parser::parse_line.  A line is [matched, text, captures]: whether the
\* pattern matches it, its text, and the text of each named capture group.
parse_line(cols, line) ==
    IF ~line.matched THEN [k |-> "None"]
    ELSE LET names == {cols[n].name : n \in 1..Len(cols)}
             typeOf(nm) == cols[CHOOSE n \in 1..Len(cols) : cols[n].name = nm].type
             value(nm) == typed_value(typeOf(nm), line.captures[nm])
         IN IF \E nm \in names : nm \notin DOMAIN line.captures \/ ~value(nm).ok
            THEN [k |-> "Panic"]
            ELSE [k |-> "Some",
                  event |-> [values |-> [nm \in names |-> value(nm).v], extra_text |-> <<>>]]

RECURSIVE parse_from(_, _, _, _)
\* the loop of Parser::parse over the lines left, parsed holding the records so far
parse_from(cols, ml, lines, parsed) ==
    IF lines = <<>> THEN [k |-> "Ok", events |-> parsed]
    ELSE LET line == Head(lines)
             matched_result == parse_line(cols, line)
         IN IF matched_result.k = "Panic" THEN [k |-> "Panic"]
            ELSE IF matched_result.k = "Some"
            THEN parse_from(cols, ml, Tail(lines), Append(parsed, matched_result.event))
            ELSE IF ml # <<>> /\ parsed # <<>>
            THEN parse_from(cols, ml, Tail(lines),
                            [parsed EXCEPT ![Len(parsed)].extra_text = Append(@, line.text)])
            ELSE parse_from(cols, ml, Tail(lines), parsed)

\* Parser::parse
parse(cols, ml, lines) == parse_from(cols, ml, lines, <<>>)

\* what is left alone while the parser and the engine are built
buildFrame == <<columns, events, filterImpl, hist, config, input, runs>>

\* Schema::try_from(schema)? in TryFrom<&str> for Parser
SchemaTryFrom ==
    /\ pc = "schema"
    /\ LET r == schema_try_from(config.schema) IN
       IF r.k = "Ok"
       THEN schema' = config.schema.columns /\ pc' = "parser" /\ UNCHANGED outcome
       ELSE pc' = "done" /\ outcome' = r /\ UNCHANGED schema
    /\ UNCHANGED <<statement, multiline_column, engine_columns>>
    /\ UNCHANGED buildFrame

\* Parser::new(schema)
ParserNew ==
    /\ pc = "parser"
    /\ LET r == parser_new(schema, config.regex) IN
       IF r.k = "Ok"
       THEN multiline_column' = r.multiline_column /\ pc' = "engine" /\ UNCHANGED outcome
       ELSE pc' = "done" /\ outcome' = r /\ UNCHANGED multiline_column
    /\ UNCHANGED <<schema, statement, engine_columns>>
    /\ UNCHANGED buildFrame

\* Engine::new(parser): no query
EngineNew ==
    /\ pc = "engine"
    /\ config.sql.k = "None"
    /\ engine_columns' = NamesOf(schema)
    /\ statement' = StatementNone
    /\ pc' = "execute"
    /\ UNCHANGED <<schema, multiline_column, outcome>>
    /\ UNCHANGED buildFrame

\* Engine::with_query(parser, query)
EngineWithQuery ==
    /\ pc = "engine"
    /\ config.sql.k # "None"
    /\ LET r == with_query(config.sql) IN
       IF r.k = "Ok"
       THEN /\ engine_columns' = NamesOf(schema)
            /\ statement' = r.statement
            /\ pc' = "execute"
            /\ UNCHANGED outcome
       ELSE pc' = "done" /\ outcome' = r /\ UNCHANGED <<engine_columns, statement>>
    /\ UNCHANGED <<schema, multiline_column>>
    /\ UNCHANGED buildFrame

\* Engine::execute(lines) up to the call of process(): the lines are parsed and
\* a TableResult is made of the records and of clones of the engine's fields
ExecuteOn(lines) ==
    /\ hist' = <<>>
    /\ LET r == parse(schema, multiline_column, lines) IN
       IF r.k = "Ok"
       THEN /\ input' = r.events
            /\ columns' = engine_columns
            /\ events' = r.events
            /\ pc' = "filter"
            /\ outcome' = [k |-> "Running"]
       ELSE pc' = "done" /\ outcome' = r /\ UNCHANGED <<input, columns, events>>
    /\ UNCHANGED <<schema, statement, multiline_column, engine_columns, config, filterImpl>>

\* the execution of the engine on the lines the program was given
Execute ==
    /\ pc = "execute"
    /\ runs' = runs
    /\ ExecuteOn(config.lines)

\* most executions of one engine
MaxRuns == 3

\* the records of one line: i = 2, v = "b"
OtherInput ==
    <<[values |-> (<<105>> :> TypeInt32(2)) @@ (<<118>> :> TypeString(<<98>>)), extra_text |-> <<>>]>>

\* faulty variant: the TableResult takes over the columns the last execution
\* left, not a clone of the engine's
ExecuteAgain_reuses_columns ==
    /\ pc = "done"
    /\ outcome.k \in {"Ok", "InvalidQuery", "TypeMismatch"}
    /\ Len(runs) + 1 < MaxRuns
    /\ runs' = Append(runs, [input |-> input, returned |-> Returned])
    /\ \E evs \in {input, <<>>, OtherInput} :
         /\ input' = evs
         /\ events' = evs
    /\ pc' = "filter"
    /\ outcome' = [k |-> "Running"]
    /\ hist' = <<>>
    /\ UNCHANGED <<columns, schema, statement, multiline_column, engine_columns, config, filterImpl>>

\* Engine::execute on an engine that has executed before, once that execution
\* has returned: on lines that parse to the same records again, on no line at
\* all, or on one other line.  The TableResult is made anew of clones of the
\* engine's fields.
ExecuteAgain ==
    /\ pc = "done"
    /\ outcome.k \in {"Ok", "InvalidQuery", "TypeMismatch"}
    /\ Len(runs) + 1 < MaxRuns
    /\ runs' = Append(runs, [input |-> input, returned |-> Returned])
    /\ \E evs \in {input, <<>>, OtherInput} :
         /\ input' = evs
         /\ events' = evs
    /\ columns' = engine_columns
    /\ pc' = "filter"
    /\ outcome' = [k |-> "Running"]
    /\ hist' = <<>>
    /\ UNCHANGED <<schema, statement, multiline_column, engine_columns, config, filterImpl>>

\* the pipeline, on an engine that is executed more than once
NextRuns == Next \/ ExecuteAgain

\* from the schema definition to the call of process()
NextBuild == SchemaTryFrom \/ ParserNew \/ EngineNew \/ EngineWithQuery \/ Execute

----------------------------------------------------------------------------
(* The inputs of the model *)

\* names: "i", "v" (schema columns), "a" (an alias)
col_i == <<105>>
col_v == <<118>>
alias_a == <<97>>

RECURSIVE NatText(_)
\* the decimal text of n, as the SQL tokenizer hands it over
NatText(n) == IF n < 10 THEN <<48 + n>> ELSE NatText(n \div 10) \o <<48 + (n % 10)>>

\* "18446744073709551616", usize::MAX + 1
HugeText == <<49,56,52,52,54,55,52,52,48,55,51,55,48,57,53,53,49,54,49,54>>

\* the values a column of type ty holds in this model
ValuesOf(ty) ==
    CASE ty = "String"   -> {TypeString(<<97>>), TypeString(<<97, 98>>), TypeString(<<98>>)}
      [] ty = "Int32"    -> {TypeInt32(x) : x \in 1..3}
      [] ty = "Int64"    -> {TypeInt64(x) : x \in 1..3}
      [] ty = "Bool"     -> {TypeBool(x) : x \in BOOLEAN}
      [] ty = "Float"    -> {TypeFloat(x) : x \in {20, 25, 30}}
      [] ty = "Double"   -> {TypeDouble(x) : x \in {20, 25, 30}}
      [] ty = "DateTime" -> {TypeDateTime(x) : x \in {47, 48, 49}}

\* sequences over S of length at most n
SeqsUpTo(S, n) == UNION {[1..m -> S] : m \in 0..n}

Column(name, ty) == [name |-> name, type |-> ty, multiline |-> FALSE]

\* Event { values, extra_text }; extra_text None is the empty sequence
Event(values) == [values |-> values, extra_text |-> <<>>]

\* the records Parser::parse can hand over for the schema sch: every column
\* bound to a value of its declared type
EventsOf(sch) ==
    LET names == {sch[n].name : n \in 1..Len(sch)}
        typeOf(nm) == sch[CHOOSE n \in 1..Len(sch) : sch[n].name = nm].type
        maps == {f \in [names -> UNION {ValuesOf(ty) : ty \in ColumnTypes}] :
                    \A nm \in names : f[nm] \in ValuesOf(typeOf(nm))}
    IN {Event(f) : f \in maps}

\* LIMIT / OFFSET clauses: absent, an integer literal 0..MaxN, an integer literal
\* above usize::MAX, a quoted string
CountClauses ==
    {ExprNone}
    \cup {ExprValue(ValueNumber(NatText(n), FALSE)) : n \in 0..MaxN}
    \cup {ExprValue(ValueNumber(HugeText, FALSE)), ExprValue(ValueSingleQuotedString(<<97>>))}

\* ORDER BY item: OrderByExpr { expr, asc: Option<bool> }; asc is "none",
\* "true" or "false"
OrderByExpr(expr, asc) == [expr |-> expr, asc |-> asc]

\* the schema of the pipeline specification: i: i32, v: string
PipelineSchema == <<Column(col_i, "Int32"), Column(col_v, "String")>>

PipelineSelections ==
    { SelectionNone,
      BinaryOp(ExprIdentifier(col_i), "Lt", ExprValue(ValueNumber(<<50>>, FALSE))),
      BinaryOp(ExprIdentifier(col_i), "Eq", ExprValue(ValueSingleQuotedString(<<97>>))) }

PipelineProjections ==
    { <<Wildcard>>,
      <<ExprWithAlias(ExprIdentifier(col_v), alias_a)>>,
      <<UnnamedExpr(ExprOther)>> }

\* no ORDER BY, `i DESC`, `v, i DESC`, and a key that is no identifier
PipelineOrderBys ==
    { <<>>, <<OrderByExpr(ExprIdentifier(col_i), "false")>>,
      <<OrderByExpr(ExprIdentifier(col_v), "none"), OrderByExpr(ExprIdentifier(col_i), "false")>>,
      <<OrderByExpr(ExprOther, "none")>> }

PipelineStatements ==
    {StatementNone, StatementOther}
    \cup { Query(Select(p, s), o, l, f) :
             p \in PipelineProjections, s \in PipelineSelections,
             o \in PipelineOrderBys, l \in CountClauses, f \in CountClauses }

\* the engine is given as built and the records as parsed: nothing is known
\* of the schema definition, the query text or the lines they came from
NoConfig == [k |-> "None"]

\* Engine::execute: the TableResult handed to process()
Start(sch, stmt, evs, impl) ==
    /\ schema = sch
    /\ statement = stmt
    /\ columns = [n \in 1..Len(sch) |-> sch[n].name]
    /\ events = evs
    /\ pc = "filter"
    /\ outcome = [k |-> "Running"]
    /\ filterImpl = impl
    /\ hist = <<>>
    /\ config = NoConfig
    /\ multiline_column = <<>>
    /\ engine_columns = [n \in 1..Len(sch) |-> sch[n].name]
    /\ input = evs
    /\ runs = <<>>

\* the records of the pipeline specification: i in {1, 2}, v in {"a", "b"}
PipelineEvents ==
    {e \in EventsOf(PipelineSchema) :
        e.values[col_i].i <= 2 /\ e.values[col_v].s \in {<<97>>, <<98>>}}

\* The pipeline on a two-column schema, with every combination of the clauses.
Init ==
    \E stmt \in PipelineStatements, evs \in SeqsUpTo(PipelineEvents, MaxEvents),
       impl \in {"engine.rs", "filter.rs"} :
        Start(PipelineSchema, stmt, evs, impl)

Spec == Init /\ [][Next]_vars

----------------------------------------------------------------------------
(* The filter stage over every column type, operator and literal *)

\* "2147483648", i32::MAX + 1
AboveI32Text == <<50,49,52,55,52,56,51,54,52,56>>

\* The literals: the quoted texts "ab" and four timestamps (below), the numbers
\* 2, 2.5, 2L and 2147483648, true and false.
\* texts of quoted literals: "ab", and four timestamps, the first three of
\* which denote the same instant: "2T00Z", "2T01+1", "1T23-1", "2T01Z"
DateTexts == { <<50, 84, 48, 48, 90>>, <<50, 84, 48, 49, 43, 49>>,
               <<49, 84, 50, 51, 45, 49>>, <<50, 84, 48, 49, 90>> }

FilterLiterals ==
    {ValueSingleQuotedString(<<97, 98>>)}
    \cup {ValueSingleQuotedString(x) : x \in DateTexts}
    \cup {ValueNumber(<<50>>, FALSE), ValueNumber(<<50, 46, 53>>, FALSE),
          ValueNumber(<<50>>, TRUE), ValueNumber(AboveI32Text, FALSE)}
    \cup {ValueBoolean(x) : x \in BOOLEAN}

\* the six comparison operators, and one binary operator that is none of them
ComparisonOps == {"Eq", "NotEq", "Lt", "LtEq", "Gt", "GtEq"}
BinaryOperators == ComparisonOps \cup {"And"}

FilterSelections ==
    {SelectionNone, SelectionOther,
     BinaryOp(ExprIdentifier(col_v), "Eq", ExprIdentifier(col_v)),
     BinaryOp(ExprValue(ValueBoolean(TRUE)), "Eq", ExprValue(ValueBoolean(TRUE))),
     BinaryOp(ExprOther, "Eq", ExprValue(ValueBoolean(TRUE))),
     BinaryOp(ExprOther, "And", ExprOther)}
    \cup {BinaryOp(ExprIdentifier(col_v), op, ExprValue(l)) :
            op \in BinaryOperators, l \in FilterLiterals}
    \cup {BinaryOp(ExprValue(l), op, ExprIdentifier(col_v)) :
            op \in BinaryOperators, l \in FilterLiterals}

InitFilter ==
    \E ty \in ColumnTypes, sel \in FilterSelections, impl \in {"engine.rs", "filter.rs"} :
      \E evs \in SeqsUpTo(EventsOf(<<Column(col_v, ty)>>), MaxEvents) :
        Start(<<Column(col_v, ty)>>,
              Query(Select(<<Wildcard>>, sel), <<>>, ExprNone, ExprNone), evs, impl)

SpecFilter == InitFilter /\ [][Next]_vars

----------------------------------------------------------------------------
(* The filter stage on a column named in either letter case *)

\* "V", the schema column v in upper case
col_V == <<86>>

\* comparisons of the column, spelled v or V, with every literal
CaseSelections ==
    {BinaryOp(ExprIdentifier(c), op, ExprValue(l)) :
        c \in {col_v, col_V}, op \in ComparisonOps, l \in FilterLiterals}
    \cup {BinaryOp(ExprValue(l), op, ExprIdentifier(c)) :
            c \in {col_v, col_V}, op \in ComparisonOps, l \in FilterLiterals}

InitCase ==
    \E ty \in {"Int32", "String", "Bool"}, sel \in CaseSelections, impl \in {"engine.rs", "filter.rs"} :
      \E evs \in SeqsUpTo(EventsOf(<<Column(col_v, ty)>>), MaxEvents) :
        Start(<<Column(col_v, ty)>>,
              Query(Select(<<Wildcard>>, sel), <<>>, ExprNone, ExprNone), evs, impl)

SpecCase == InitCase /\ [][Next]_vars

----------------------------------------------------------------------------
(* The project stage over every SELECT list of a few items *)

\* the longest SELECT list
MaxItems == 2

\* SELECT items: the columns plain and aliased (twice under the same alias),
\* the wildcard, a qualified wildcard, a literal, another expression, an
\* aliased expression
ProjectItems ==
    { UnnamedExpr(ExprIdentifier(col_i)), UnnamedExpr(ExprIdentifier(col_v)),
      ExprWithAlias(ExprIdentifier(col_i), alias_a),
      ExprWithAlias(ExprIdentifier(col_v), alias_a),
      Wildcard, QualifiedWildcard,
      UnnamedExpr(ExprValue(ValueNumber(<<49>>, FALSE))), UnnamedExpr(ExprOther),
      ExprWithAlias(ExprOther, alias_a) }

ProjectSelections ==
    { SelectionNone,
      BinaryOp(ExprIdentifier(col_i), "Lt", ExprValue(ValueNumber(<<50>>, FALSE))) }

InitProject ==
    \E m \in 1..MaxItems, sel \in ProjectSelections, impl \in {"engine.rs", "filter.rs"} :
      \E p \in [1..m -> ProjectItems], evs \in SeqsUpTo(PipelineEvents, MaxEvents) :
        Start(PipelineSchema, Query(Select(p, sel), <<>>, ExprNone, ExprNone), evs, impl)

SpecProject == InitProject /\ [][Next]_vars

----------------------------------------------------------------------------
(* The offset and limit stages over every kind of LIMIT / OFFSET value *)

\* LIMIT / OFFSET values: those of CountClauses, the decimal 1.5, a boolean,
\* an identifier, and another expression (a negated number is a unary
\* operation on a number)
CountValues ==
    CountClauses
    \cup { ExprValue(ValueNumber(<<49, 46, 53>>, FALSE)), ExprValue(ValueBoolean(TRUE)),
           ExprIdentifier(col_i), ExprOther }

InitCount ==
    \E l \in CountValues, f \in CountValues, impl \in {"engine.rs", "filter.rs"} :
      \E evs \in SeqsUpTo(PipelineEvents, MaxEvents) :
        Start(PipelineSchema, Query(Select(<<Wildcard>>, SelectionNone), <<>>, l, f), evs, impl)

SpecCount == InitCount /\ [][Next]_vars

----------------------------------------------------------------------------
(* One engine executed more than once *)

\* no query, and queries with every projection and selection of the pipeline
\* specification, without and with LIMIT 1 and OFFSET 1
RunsStatements ==
    LET counts == {ExprNone, ExprValue(ValueNumber(NatText(1), FALSE))} IN
    {StatementNone}
    \cup { Query(Select(p, s), <<>>, l, f) :
             p \in PipelineProjections, s \in PipelineSelections, l \in counts, f \in counts }

InitRuns ==
    \E stmt \in RunsStatements, evs \in SeqsUpTo(PipelineEvents, MaxEvents),
       impl \in {"engine.rs", "filter.rs"} :
        Start(PipelineSchema, stmt, evs, impl)

SpecRuns == InitRuns /\ [][NextRuns]_vars

----------------------------------------------------------------------------
(* The program from the schema definition on *)

\* most input lines
MaxLines == 3

col_m == <<109>>

\* a column definition with its multiline flag
ColumnDef(name, ty, multiline) == [name |-> name, type |-> ty, multiline |-> multiline]

\* schema definitions: one or two columns i, v of type string or i32, with
\* every setting of the multiline flags; three columns i, v, m all flagged
\* multiline; and a text serde_yaml cannot read
BuildSchemas ==
    LET kinds == {"String", "Int32"} IN
    { [ok |-> TRUE, columns |-> <<ColumnDef(col_i, t1, m1)>>] : t1 \in kinds, m1 \in BOOLEAN }
    \cup { [ok |-> TRUE, columns |-> <<ColumnDef(col_i, t[1], m[1]), ColumnDef(col_v, t[2], m[2])>>] :
             t \in [1..2 -> kinds], m \in [1..2 -> BOOLEAN] }
    \cup { [ok |-> TRUE, columns |-> <<ColumnDef(col_i, t[1], TRUE), ColumnDef(col_v, t[2], TRUE),
                                      ColumnDef(col_m, t[3], TRUE)>>] : t \in [1..3 -> kinds] }
    \cup { [ok |-> FALSE, columns |-> <<>>] }

\* patterns: one that does not compile, and patterns with the capture groups
\* i, v, m / i / none
BuildRegexes ==
    { [ok |-> FALSE, capture_names |-> {}] }
    \cup { [ok |-> TRUE, capture_names |-> g] : g \in {{col_i, col_v, col_m}, {col_i}, {}} }

\* `SELECT *` and `SELECT i AS a`
SelectAll == Query(Select(<<Wildcard>>, SelectionNone), <<>>, ExprNone, ExprNone)
SelectAlias ==
    Query(Select(<<ExprWithAlias(ExprIdentifier(col_i), alias_a)>>, SelectionNone),
          <<>>, ExprNone, ExprNone)

\* what parse_sql makes of the query text: an error, no statement, one, two;
\* k = "None" where the engine is built without a query
BuildSqls ==
    { [k |-> "None", error |-> <<>>, statements |-> <<>>],
      [k |-> "Err", error |-> <<101>>, statements |-> <<>>] }
    \cup { [k |-> "Ok", error |-> <<>>, statements |-> q] :
             q \in {<<>>, <<SelectAll>>, <<SelectAlias>>, <<SelectAll, SelectAlias>>} }

\* lines: a match capturing "1" in every group, a match capturing "a" in
\* every group, and the non-matching lines "x" and "y"
BuildLineKinds ==
    { [matched |-> TRUE, text |-> t, captures |-> [g \in {col_i, col_v, col_m} |-> t]] :
        t \in {<<49>>, <<97>>} }
    \cup { [matched |-> FALSE, text |-> t, captures |-> [g \in {col_i, col_v, col_m} |-> <<>>]] :
             t \in {<<120>>, <<121>>} }

InitBuild ==
    /\ \E sch \in BuildSchemas, re \in BuildRegexes, sql \in BuildSqls,
          lines \in SeqsUpTo(BuildLineKinds, MaxLines) :
         config = [k |-> "Config", schema |-> sch, regex |-> re, sql |-> sql, lines |-> lines]
    /\ filterImpl = "filter.rs"
    /\ pc = "schema"
    /\ outcome = [k |-> "Running"]
    /\ schema = <<>>
    /\ statement = StatementNone
    /\ columns = <<>>
    /\ events = <<>>
    /\ hist = <<>>
    /\ multiline_column = <<>>
    /\ engine_columns = <<>>
    /\ input = <<>>
    /\ runs = <<>>

SpecBuild == InitBuild /\ [][NextBuild]_vars

----------------------------------------------------------------------------
(* Reading the history *)

\* the names of the stages that ran, in order
StageNames == [n \in 1..Len(hist) |-> hist[n].stage]

\* the stage whose result the current state shows (the last one that ran)
JustRan(stage) == hist # <<>> /\ hist[Len(hist)].stage = stage
\* the result that stage received
Received == hist[Len(hist)]
\* the stage returned Ok
ReturnedOk == outcome.k \in {"Running", "Ok"}

\* the text of an unsigned integer literal: digits only
IsIntegerLiteral(expr) ==
    expr.e = "Value" /\ expr.lit.k = "Number" /\ expr.lit.s # <<>> /\ DigitsOnly(expr.lit.s)

\* the number an integer literal denotes; every number above I32_MAX is
\* read as I32_MAX, which is larger than any record count of the model
Denotes(expr) == Saturated(expr.lit.s, 0)

\* evs[from+1 .. to], clamped to the bounds of evs (Rust's records[from..to])
Slice(evs, from, to) ==
    SubSeq(evs, from + 1, IF to < Len(evs) THEN to ELSE Len(evs))

\* a + b, saturating at I32_MAX
SatAdd(a, b) == IF a > I32_MAX - b THEN I32_MAX ELSE a + b

----------------------------------------------------------------------------
(* C1 - C4: the order of the stages, OFFSET and LIMIT *)

\* C1: every execution that succeeds has run the five stages Filter, Project,
\* OrderBy, Offset, Limit in this order, each on the previous stage's result.
C1_FiveStagesInOrder ==
    (pc = "done" /\ outcome.k = "Ok")
        => StageNames = <<"Filter", "Project", "OrderBy", "Offset", "Limit">>

\* C2: a query with LIMIT N and OFFSET M, N and M integer literals, returns
\* exactly records[M .. M+N], clamped, of the records that reached Offset.
C2_LimitOffsetSlice ==
    (/\ statement.kind = "Query"
     /\ IsIntegerLiteral(statement.limit) /\ IsIntegerLiteral(statement.offset)
     /\ Len(hist) >= 3 /\ pc = "done")
        => /\ outcome.k = "Ok"
           /\ events = Slice(hist[3].events, Denotes(statement.offset),
                             SatAdd(Denotes(statement.offset), Denotes(statement.limit)))

\* C3: OFFSET N, N an integer literal, returns Ok with the first N records
\* dropped and the others kept in order; it never fails, however large N is.
C3_OffsetNeverFails ==
    (/\ JustRan("Offset")
     /\ statement.kind = "Query" /\ IsIntegerLiteral(statement.offset))
        => /\ ReturnedOk
           /\ events = Slice(Received.events, Denotes(statement.offset), Len(Received.events))

\* C4: LIMIT N, N an integer literal, returns the first min(N, K) records in
\* order; N larger than K keeps all K records and is not an error.
C4_LimitFirstN ==
    (/\ JustRan("Limit")
     /\ statement.kind = "Query" /\ IsIntegerLiteral(statement.limit))
        => /\ ReturnedOk
           /\ events = Slice(Received.events, 0, Denotes(statement.limit))

----------------------------------------------------------------------------
(* What a comparison means, stated apart from the code *)

\* the WHERE expression of a SELECT query
Sel == statement.body.selection
IsSelect == statement.kind = "Query" /\ statement.body.kind = "Select"

ColumnFirst(sel)  == sel.e = "BinaryOp" /\ sel.left.e = "Identifier" /\ sel.right.e = "Value"
LiteralFirst(sel) == sel.e = "BinaryOp" /\ sel.left.e = "Value" /\ sel.right.e = "Identifier"
\* one binary comparison between a column and a literal, in either order
IsComparison(sel) == (ColumnFirst(sel) \/ LiteralFirst(sel)) /\ sel.op \in ComparisonOps
SelColumn(sel)  == IF ColumnFirst(sel) THEN sel.left.value ELSE sel.right.value
SelLiteral(sel) == IF ColumnFirst(sel) THEN sel.right.lit ELSE sel.left.lit

\* the declared type of the schema column called name
DeclaredType(name) == schema[CHOOSE n \in 1..Len(schema) : schema[n].name = name].type

\* the syntactic kind of literal a column type is compared with
ExpectedKind(ty) ==
    CASE ty \in {"String", "DateTime"} -> "SingleQuotedString"
      [] ty \in {"Int32", "Int64", "Float", "Double"} -> "Number"
      [] ty = "Bool" -> "Boolean"

\* the instant (hours, UTC) each timestamp text of the model denotes
InstantOf(text) ==
    CASE text = <<50, 84, 48, 48, 90>>     -> 48    \* 2T00Z
      [] text = <<50, 84, 48, 49, 43, 49>> -> 48    \* 2T01+1
      [] text = <<49, 84, 50, 51, 45, 49>> -> 48    \* 1T23-1
      [] text = <<50, 84, 48, 49, 90>>     -> 49    \* 2T01Z

\* the tenths each decimal text of the model denotes
TenthsOf(text) ==
    CASE text = <<50>> -> 20            \* 2
      [] text = <<50, 46, 53>> -> 25    \* 2.5
      [] text = AboveI32Text -> I32_MAX  \* above every value of the model


\* the literal is of the kind, and within the width, of the column type
LiteralMatches(ty, lit) ==
    /\ lit.k = ExpectedKind(ty)
    /\ ty \in {"Int32", "Int64", "Float", "Double"} => ~lit.long
    /\ ty \in {"Int32", "Int64"} => DigitsOnly(lit.s)
    /\ ty = "Int32" => DecimalFits(lit.s, I32_MAX_TEXT)
    /\ ty = "DateTime" => lit.s \in DateTexts

\* the operator is defined on the column type
OpDefinedOn(op, ty) == ty = "Bool" => op \in {"Eq", "NotEq"}

\* three-way comparison of a record's value with a matching literal:
\* negative, zero or positive as the value is below, equal to or above it
Compare3(ty, v, lit) ==
    LET cmp(a, b) == IF a < b THEN 0 - 1 ELSE IF a = b THEN 0 ELSE 1 IN
    CASE ty = "String" ->
           IF v.s = lit.s THEN 0 ELSE IF StrLess(v.s, lit.s) THEN 0 - 1 ELSE 1
      [] ty \in {"Int32", "Int64"} -> cmp(v.i, Saturated(lit.s, 0))
      [] ty \in {"Float", "Double"} -> cmp(v.i, TenthsOf(lit.s))
      [] ty = "DateTime" -> cmp(v.i, InstantOf(lit.s))
      [] ty = "Bool" -> IF v.b = lit.b THEN 0 ELSE IF lit.b THEN 0 - 1 ELSE 1

\* `x op y` given the three-way comparison c of x with y
Holds(op, c) ==
    CASE op = "Eq"    -> c = 0
      [] op = "NotEq" -> c # 0
      [] op = "Lt"    -> c < 0
      [] op = "LtEq"  -> c <= 0
      [] op = "Gt"    -> c > 0
      [] op = "GtEq"  -> c >= 0

\* the record e satisfies the comparison sel, as written
Satisfies(e, sel) ==
    LET name == SelColumn(sel)
        c == Compare3(DeclaredType(name), e.values[name], SelLiteral(sel))
    IN Holds(sel.op, IF ColumnFirst(sel) THEN c ELSE 0 - c)

\* the records of evs that satisfy sel, in their order
Survivors(evs, sel) ==
    LET Test(e) == Satisfies(e, sel) IN SelectSeq(evs, Test)

\* a comparison the contract covers: column and literal of the matching kind,
\* an operator defined on the column's type
Covered(sel) ==
    /\ IsComparison(sel)
    /\ LiteralMatches(DeclaredType(SelColumn(sel)), SelLiteral(sel))
    /\ OpDefinedOn(sel.op, DeclaredType(SelColumn(sel)))

\* the mirrored operator
Mirror(op) ==
    CASE op = "Lt" -> "Gt" [] op = "Gt" -> "Lt"
      [] op = "LtEq" -> "GtEq" [] op = "GtEq" -> "LtEq"
      [] OTHER -> op

\* the statement with its WHERE expression replaced
WithSelection(stmt, sel) == [stmt EXCEPT !.body.selection = sel]

\* the filter stage of the implementation impl
FilterOf(impl, sch, cols, evs, stmt) ==
    IF impl = "filter.rs" THEN filter(sch, cols, evs, stmt)
    ELSE engine_filter(sch, cols, evs, stmt)

----------------------------------------------------------------------------
(* C5 - C10: the filter stage *)

\* C5: given one comparison between a column and a literal of the matching
\* kind, Filter (engine/filter.rs) returns exactly the records for which the
\* comparison holds, in their order; with no WHERE clause it returns the
\* records unchanged.
C5_FilterKeepsSatisfying ==
    (JustRan("Filter") /\ filterImpl = "filter.rs" /\ IsSelect)
        => /\ Sel.e = "None" =>
                ReturnedOk /\ events = Received.events /\ columns = Received.columns
           /\ Covered(Sel) =>
                /\ ReturnedOk
                /\ events = Survivors(Received.events, Sel)
                /\ columns = Received.columns

C5_Witness ==
    /\ JustRan("Filter") /\ filterImpl = "filter.rs" /\ IsSelect /\ Covered(Sel)
    /\ LiteralFirst(Sel) /\ Sel.op = "Lt"
    /\ Len(Received.events) = 2 /\ Len(events) = 1 /\ events[1] = Received.events[2]

\* C6: for every operator OP defined on the column's type, `literal OP column`
\* yields what `column OP' literal` yields, OP' the mirrored operator; it is
\* never rejected for its operand order.
C6_FlipCorrect ==
    (JustRan("Filter") /\ IsSelect /\ LiteralFirst(Sel) /\ Covered(Sel))
        => LET mirrored == BinaryOp(Sel.right, Mirror(Sel.op), Sel.left)
               m == FilterOf(filterImpl, schema, Received.columns, Received.events,
                             WithSelection(statement, mirrored))
           IN /\ m.k = (IF ReturnedOk THEN "Ok" ELSE outcome.k)
              /\ m.k = "Ok" => events = m.events

\* C7: when a record reaches a comparison whose literal is not of the
\* syntactic kind of the column's declared type, Filter (engine/filter.rs)
\* fails with TypeMismatch carrying the declared type, the record's value and
\* the literal; the record is not dropped as a non-match.
C7_KindMismatchIsError ==
    (/\ JustRan("Filter") /\ filterImpl = "filter.rs" /\ IsSelect /\ IsComparison(Sel)
     /\ Received.events # <<>>
     /\ SelLiteral(Sel).k # ExpectedKind(DeclaredType(SelColumn(Sel))))
        => /\ pc = "done"
           /\ outcome.k = "TypeMismatch"
           /\ outcome.column_type = DeclaredType(SelColumn(Sel))
           /\ outcome.value = Received.events[1].values[SelColumn(Sel)]
           /\ outcome.literal = SelLiteral(Sel)

C7_Witness ==
    /\ JustRan("Filter") /\ filterImpl = "filter.rs" /\ IsSelect /\ IsComparison(Sel)
    /\ DeclaredType(SelColumn(Sel)) = "Int32"
    /\ SelLiteral(Sel).k = "SingleQuotedString"
    /\ Len(Received.events) = 2
    /\ outcome.k = "TypeMismatch"

\* C8: comparing an Int32 or Int64 column with a decimal literal such as 2.5
\* ends the query with a TypeMismatch error value.
C8_DecimalOnIntegerColumn ==
    (/\ JustRan("Filter") /\ IsSelect /\ ColumnFirst(Sel) /\ Sel.op = "Eq"
     /\ DeclaredType(SelColumn(Sel)) \in {"Int32", "Int64"}
     /\ SelLiteral(Sel) = ValueNumber(<<50, 46, 53>>, FALSE)
     /\ Received.events # <<>>)
        => outcome.k = "TypeMismatch"

C10_InstantComparison ==
    (/\ JustRan("Filter") /\ filterImpl = "filter.rs" /\ IsSelect /\ IsComparison(Sel)
     /\ DeclaredType(SelColumn(Sel)) = "DateTime"
     /\ SelLiteral(Sel).k = "SingleQuotedString" /\ SelLiteral(Sel).s \in DateTexts)
        => /\ ReturnedOk
           /\ events = Survivors(Received.events, Sel)
           /\ \A other \in DateTexts :
                InstantOf(other) = InstantOf(SelLiteral(Sel).s) =>
                  LET lit == ExprValue(ValueSingleQuotedString(other))
                      sel == IF ColumnFirst(Sel) THEN BinaryOp(Sel.left, Sel.op, lit)
                             ELSE BinaryOp(lit, Sel.op, Sel.right)
                      r == filter(schema, Received.columns, Received.events,
                                  WithSelection(statement, sel))
                  IN r.k = "Ok" /\ r.events = events

\* `ts = '2T01+1'` keeps the record stored as 2T00Z (instant 48) and only such records
C10_Witness ==
    /\ JustRan("Filter") /\ filterImpl = "filter.rs" /\ IsSelect
    /\ ColumnFirst(Sel) /\ Sel.op = "Eq"
    /\ DeclaredType(SelColumn(Sel)) = "DateTime"
    /\ SelLiteral(Sel) = ValueSingleQuotedString(<<50, 84, 48, 49, 43, 49>>)
    /\ Len(Received.events) = 2
    /\ events = <<Event(col_v :> TypeDateTime(48))>>

----------------------------------------------------------------------------
(* C11: the shapes of WHERE the filter stage rejects *)

\* C11: a WHERE clause that is not one binary comparison (=, !=, <, <=, >, >=)
\* between a column identifier and a literal, in either order, makes Filter
\* return InvalidQuery carrying the statement; the execution ends there.
C11_InvalidShape ==
    (JustRan("Filter") /\ IsSelect /\ Sel.e # "None" /\ ~IsComparison(Sel))
        => pc = "done" /\ outcome = InvalidQuery(statement)

\* `<expr> AND <expr>` over two records is rejected by engine/filter.rs
C11_Witness ==
    /\ JustRan("Filter") /\ filterImpl = "filter.rs" /\ IsSelect
    /\ Sel = BinaryOp(ExprOther, "And", ExprOther)
    /\ Len(Received.events) = 2
    /\ outcome = InvalidQuery(statement)

----------------------------------------------------------------------------
(* C12 - C15: the project stage *)

Projection == statement.body.projection
\* the column names of the schema, in schema order
SchemaNames == [n \in 1..Len(schema) |-> schema[n].name]

\* C12: with `SELECT *`, and when the engine holds no query, Project returns
\* Ok, the column list is the schema's column names in schema order and the
\* records are the records it received, unchanged.
C12_WildcardIdentity ==
    (JustRan("Project") /\ (statement.kind = "None" \/ (IsSelect /\ Projection = <<Wildcard>>)))
        => ReturnedOk /\ columns = SchemaNames /\ events = Received.events

\* `SELECT *` over two records
C12_Witness ==
    /\ JustRan("Project") /\ IsSelect /\ Projection = <<Wildcard>>
    /\ Len(Received.events) = 2 /\ events = Received.events /\ columns = <<col_i, col_v>>

\* a plain or aliased identifier naming a column of the schema
IsColumnItem(p) ==
    /\ p.item \in {"UnnamedExpr", "ExprWithAlias"}
    /\ p.expr.e = "Identifier"
    /\ \E n \in 1..Len(schema) : schema[n].name = p.expr.value
\* the output name of a column item: the alias where given, else the column name
OutName(p) == IF p.item = "ExprWithAlias" THEN p.alias ELSE p.expr.value
\* a SELECT list of column items only
IsColumnList(list) == list # <<>> /\ \A k \in 1..Len(list) : IsColumnItem(list[k])
OutNames(list) == [k \in 1..Len(list) |-> OutName(list[k])]

\* C13: for a SELECT list of plain and aliased column identifiers over a
\* non-empty record set, Project returns Ok, the column list becomes the
\* output names in SELECT-list order, every record holds exactly the output
\* names, each bound to the value the record had under the source column, and
\* the records keep their number, order and extra text.
C13_ProjectRekeys ==
    (JustRan("Project") /\ IsSelect /\ IsColumnList(Projection) /\ Received.events # <<>>)
        => /\ ReturnedOk
           /\ columns = OutNames(Projection)
           /\ Len(events) = Len(Received.events)
           /\ \A n \in 1..Len(events) :
                /\ DOMAIN events[n].values = {OutName(Projection[k]) : k \in 1..Len(Projection)}
                /\ \A k \in 1..Len(Projection) :
                     events[n].values[OutName(Projection[k])]
                       = Received.events[n].values[Projection[k].expr.value]
                /\ events[n].extra_text = Received.events[n].extra_text

\* C14: the output column list is computed from the SELECT list alone: when
\* Project returns Ok for a list of column items over a non-empty record set,
\* the column list is the output names in SELECT-list order and every record
\* is keyed by exactly the names of that one list; when the record set
\* reaching Project is empty, Project returns Ok and the column list is the
\* full schema column list, whatever the SELECT list.
C14_ColumnOrder ==
    (JustRan("Project") /\ IsSelect)
        => /\ (Received.events = <<>>) => (ReturnedOk /\ columns = SchemaNames /\ events = <<>>)
           /\ (Received.events # <<>> /\ IsColumnList(Projection) /\ ReturnedOk)
                => /\ columns = OutNames(Projection)
                   /\ \A n \in 1..Len(events) :
                        DOMAIN events[n].values = {columns[k] : k \in 1..Len(columns)}

\* `SELECT v AS a, i ... WHERE i < 2` over records the filter drops: the column
\* list stays <<i, v>>
C14_Witness ==
    /\ JustRan("Project") /\ IsSelect
    /\ Projection = <<ExprWithAlias(ExprIdentifier(col_v), alias_a), UnnamedExpr(ExprIdentifier(col_i))>>
    /\ Len(hist[1].events) = 2 /\ Received.events = <<>>
    /\ columns = <<col_i, col_v>> /\ ReturnedOk

\* the same SELECT list over two records: the column list is <<a, i>>
C14_WitnessNonEmpty ==
    /\ JustRan("Project") /\ IsSelect
    /\ Projection = <<ExprWithAlias(ExprIdentifier(col_v), alias_a), UnnamedExpr(ExprIdentifier(col_i))>>
    /\ Len(Received.events) = 2
    /\ columns = <<alias_a, col_i>> /\ ReturnedOk

\* a SELECT item Project supports: a plain identifier, an aliased identifier,
\* the wildcard
IsSupportedItem(p) ==
    \/ p.item = "Wildcard"
    \/ p.item \in {"UnnamedExpr", "ExprWithAlias"} /\ p.expr.e = "Identifier"

\* C15: a SELECT list holding an item that is not a plain identifier, an
\* aliased identifier or the wildcard makes Project return InvalidQuery
\* carrying the statement.
C15_UnsupportedItem ==
    (JustRan("Project") /\ IsSelect
       /\ \E k \in 1..Len(Projection) : ~IsSupportedItem(Projection[k]))
        => outcome = InvalidQuery(statement)

----------------------------------------------------------------------------
(* C16, C17: ORDER BY *)

OrderBy == statement.order_by

\* -1, 0, 1 as value x is below, equal to, above value y (numbers by value,
\* text by code point order)
ValueCompare(x, y) ==
    IF x.t = "String"
    THEN (IF x.s = y.s THEN 0 ELSE IF StrLess(x.s, y.s) THEN -1 ELSE 1)
    ELSE (IF x.i = y.i THEN 0 ELSE IF x.i < y.i THEN -1 ELSE 1)

\* the contribution of one key: a descending key reverses it
KeyCompare(a, b, key) ==
    LET c == ValueCompare(a.values[key.expr.value], b.values[key.expr.value])
    IN IF key.asc = "false" THEN -c ELSE c

RECURSIVE InKeyOrder(_, _, _)
\* record a may stand before record b under the keys, by key priority
InKeyOrder(a, b, keys) ==
    IF keys = <<>> THEN TRUE
    ELSE LET c == KeyCompare(a, b, Head(keys))
         IN c < 0 \/ (c = 0 /\ InKeyOrder(a, b, Tail(keys)))

\* every key is a column identifier
IdentifierKeys(keys) == \A k \in 1..Len(keys) : keys[k].expr.e = "Identifier"

\* C16: with ORDER BY over column keys the records of a successful result are
\* in key order: by the first key, ties by the next, ascending unless the key
\* says DESC (stated where the result still holds the key columns).
C16_OrderBySorts ==
    (/\ pc = "done" /\ outcome.k = "Ok" /\ IsSelect
     /\ OrderBy # <<>> /\ IdentifierKeys(OrderBy)
     /\ \A n \in 1..Len(events), k \in 1..Len(OrderBy) :
          OrderBy[k].expr.value \in DOMAIN events[n].values)
        => \A n \in 1..(Len(events) - 1) : InKeyOrder(events[n], events[n + 1], OrderBy)

\* C17: an ORDER BY key that is no column identifier ends the execution with
\* an error value: the execution neither succeeds nor aborts.
C17_OrderByExpression ==
    (pc = "done" /\ IsSelect /\ ~IdentifierKeys(OrderBy))
        => outcome.k \notin {"Ok", "Panic"}

----------------------------------------------------------------------------
(* C18: the values LIMIT and OFFSET accept *)

\* C18: an OFFSET or LIMIT value that is not a non-negative integer literal
\* makes the stage return InvalidQuery carrying the statement.
C18_CountLiteralKinds ==
    /\ (JustRan("Offset") /\ statement.kind = "Query"
          /\ statement.offset.e # "None" /\ ~IsIntegerLiteral(statement.offset))
         => outcome = InvalidQuery(statement)
    /\ (JustRan("Limit") /\ statement.kind = "Query"
          /\ statement.limit.e # "None" /\ ~IsIntegerLiteral(statement.limit))
         => outcome = InvalidQuery(statement)

----------------------------------------------------------------------------
(* C19, C20: over the whole pipeline *)

\* what the m-th stage that ran returns on what it received
StageResult(m) ==
    LET h == hist[m] IN
    CASE h.stage = "Filter"  -> FilterOf(filterImpl, schema, h.columns, h.events, statement)
      [] h.stage = "Project" -> project(h.columns, h.events, statement)
      [] h.stage = "Offset"  -> offset(h.columns, h.events, statement)
      [] h.stage = "Limit"   -> limit(h.columns, h.events, statement)

IsError(r) == r.k \in {"InvalidQuery", "TypeMismatch"}

\* C19: when a stage returns an error the execution is over: execute returns
\* that error and no column list or record set, the failing stage is the last
\* stage that ran, and every stage before it returned Ok, so the error is that
\* of the earliest failing stage.
C19_FailFast ==
    /\ IsError(outcome) =>
         /\ pc = "done"
         /\ Returned = outcome
         /\ StageResult(Len(hist)) = outcome
    /\ \A m \in 1..(Len(hist) - 1) : StageResult(m).k = "Ok"
    /\ (hist # <<>> /\ IsError(StageResult(Len(hist)))) => outcome = StageResult(Len(hist))

\* `WHERE i = 'a' ... LIMIT 'a'`: Filter fails with TypeMismatch, Limit would
\* fail with InvalidQuery; only Filter ran
C19_Witness ==
    /\ outcome.k = "TypeMismatch" /\ StageNames = <<"Filter">>
    /\ limit(columns, events, statement).k = "InvalidQuery"

\* the number of records stage m received, and the number it handed on (to the
\* next stage, or as the result when it is the last that ran)
CountIn(m) == Len(hist[m].events)
CountOut(m) == IF m < Len(hist) THEN Len(hist[m + 1].events) ELSE Len(events)

\* C20: the record count never increases: every stage that returned Ok handed
\* on at most as many records as it received, and Project exactly as many.
C20_CountNeverIncreases ==
    \A m \in 1..Len(hist) :
        (m < Len(hist) \/ ReturnedOk)
          => /\ CountOut(m) <= CountIn(m)
             /\ hist[m].stage = "Project" => CountOut(m) = CountIn(m)

\* two records, one dropped by WHERE, kept by an aliasing Project, dropped by
\* LIMIT 0
C20_Witness ==
    /\ pc = "done" /\ outcome.k = "Ok" /\ Len(hist) = 4
    /\ IsSelect /\ Projection # <<Wildcard>>
    /\ CountIn(1) = 2 /\ CountIn(2) = 1 /\ CountIn(3) = 1 /\ CountIn(4) = 1
    /\ events = <<>>

----------------------------------------------------------------------------
(* C21: what the stages leave alone *)

\* the column list stage m handed on
ColumnsOut(m) == IF m < Len(hist) THEN hist[m + 1].columns ELSE columns
\* the records stage m handed on
EventsOut(m) == IF m < Len(hist) THEN hist[m + 1].events ELSE events

RECURSIVE IsSubsequence(_, _)
\* a is b with some elements left out: the same records, in the same order
IsSubsequence(a, b) ==
    IF a = <<>> THEN TRUE
    ELSE IF b = <<>> THEN FALSE
    ELSE IF Head(a) = Head(b) THEN IsSubsequence(Tail(a), Tail(b))
    ELSE IsSubsequence(a, Tail(b))

\* the values bound in a record
ValuesIn(e) == {e.values[c] : c \in DOMAIN e.values}

\* C21: Filter, Offset and Limit, when they return Ok, hand on the column list
\* they received and a subsequence of the records they received (every
\* surviving record with its keys, values and extra text, in the same relative
\* order); Project, when it returns Ok, keeps the records in place: record n
\* of its result holds values of record n it received, and its extra text.
C21_StagesFrame ==
    \A m \in 1..Len(hist) :
        (m < Len(hist) \/ ReturnedOk)
          => IF hist[m].stage = "Project"
             THEN /\ Len(EventsOut(m)) = Len(hist[m].events)
                  /\ \A n \in 1..Len(EventsOut(m)) :
                       /\ ValuesIn(EventsOut(m)[n]) \subseteq ValuesIn(hist[m].events[n])
                       /\ EventsOut(m)[n].extra_text = hist[m].events[n].extra_text
             ELSE /\ ColumnsOut(m) = hist[m].columns
                  /\ IsSubsequence(EventsOut(m), hist[m].events)

\* `WHERE i < 2` over (1, a), (1, b) by engine/filter.rs keeps both in order, and
\* the later stages keep them
C21_Witness ==
    /\ pc = "done" /\ outcome.k = "Ok" /\ filterImpl = "filter.rs"
    /\ IsSelect /\ Sel.e = "BinaryOp" /\ Projection = <<Wildcard>>
    /\ Len(hist[1].events) = 2 /\ hist[1].events[1] # hist[1].events[2]
    /\ events = hist[1].events

----------------------------------------------------------------------------
(* C22 - C24: building the engine and parsing the lines *)

\* the parser was built: neither the schema nor the pattern was rejected
ParserBuilt ==
    /\ config.k = "Config"
    /\ pc \notin {"schema", "parser"}
    /\ outcome.k \notin {"InvalidSchema", "InvalidMultilineType", "TooManyMultilineColumns",
                         "InvalidRegex", "MissingColumns"}

\* no engine was produced and no record processed
NoEngine ==
    /\ pc = "done"
    /\ statement = StatementNone /\ engine_columns = <<>>
    /\ events = <<>> /\ input = <<>> /\ hist = <<>>

\* C22: Engine::with_query produces an engine only when the query text parses
\* to exactly one statement: a parse failure is returned as the parser's own
\* error, no statement as InvalidSqlQuery, two or more as TooManySqlQueries,
\* and then no engine exists and no record is processed.
C22_WithQuery ==
    (ParserBuilt /\ pc # "engine" /\ config.sql.k # "None")
        => LET sql == config.sql IN
           CASE sql.k = "Err" -> outcome = SqlParserError(sql.error) /\ NoEngine
             [] sql.k = "Ok" /\ Len(sql.statements) = 0 -> outcome = InvalidSqlQuery /\ NoEngine
             [] sql.k = "Ok" /\ Len(sql.statements) > 1 -> outcome = TooManySqlQueries /\ NoEngine
             [] sql.k = "Ok" /\ Len(sql.statements) = 1 ->
                  /\ statement = sql.statements[1]
                  /\ engine_columns = NamesOf(schema)
                  /\ outcome.k \notin {"SqlParserError", "InvalidSqlQuery", "TooManySqlQueries"}

\* two statements and three input lines: TooManySqlQueries, nothing parsed
C22_Witness ==
    /\ ParserBuilt /\ Len(config.sql.statements) = 2 /\ Len(config.lines) = 3
    /\ outcome = TooManySqlQueries /\ NoEngine

\* the schema definition the program was given
Definition == config.schema.columns
\* the positions of the columns flagged multiline, of those among them that
\* are no strings, and of the columns without a capture group
MultilineAt == {n \in 1..Len(Definition) : Definition[n].multiline}
BadMultilineAt == {n \in MultilineAt : Definition[n].type # "String"}
MissingAt == {n \in 1..Len(Definition) : Definition[n].name \notin config.regex.capture_names}

RECURSIVE NamesAt(_, _)
\* the names of the definition's columns at the positions at, in schema order
NamesAt(at, n) ==
    IF n > Len(Definition) THEN <<>>
    ELSE (IF n \in at THEN <<Definition[n].name>> ELSE <<>>) \o NamesAt(at, n + 1)

\* construction is over, with a parser or with an error
Constructed == config.k = "Config" /\ config.schema.ok /\ pc \notin {"schema", "parser"}
\* construction failed with error e, before any query ran
RejectedWith(e) == outcome = e /\ NoEngine /\ multiline_column = <<>>

\* C23: an invalid schema is rejected when the parser is built, before any
\* query runs.  A multiline column that is no string yields
\* InvalidMultilineType naming such a column and its type; two or more
\* multiline columns yield TooManyMultilineColumns listing all multiline
\* columns in schema order (where both hold, one of the two errors); else a
\* column without a capture group in a pattern that compiles yields
\* MissingColumns listing the columns without one in schema order; else the
\* schema is accepted, and the parser holds it and its multiline column.
C23_SchemaValidation ==
    Constructed =>
      LET typeError ==
              \E n \in BadMultilineAt :
                  RejectedWith(InvalidMultilineType(Definition[n].name, Definition[n].type))
          countError == RejectedWith(TooManyMultilineColumns(NamesAt(MultilineAt, 1)))
      IN CASE BadMultilineAt # {} /\ Cardinality(MultilineAt) < 2 -> typeError
           [] BadMultilineAt = {} /\ Cardinality(MultilineAt) > 1 -> countError
           [] BadMultilineAt # {} /\ Cardinality(MultilineAt) > 1 -> typeError \/ countError
           [] OTHER ->
                config.regex.ok =>
                  IF MissingAt # {}
                  THEN RejectedWith(MissingColumns(NamesAt(MissingAt, 1)))
                  ELSE /\ outcome.k \notin {"InvalidSchema", "InvalidMultilineType",
                                            "TooManyMultilineColumns", "InvalidRegex",
                                            "MissingColumns"}
                       /\ schema = Definition
                       /\ multiline_column = (IF MultilineAt = {} THEN <<>>
                                              ELSE NamesAt(MultilineAt, 1)[1])

\* i: string, v: i32 multiline is rejected, naming v and i32
C23_Witness ==
    /\ Constructed
    /\ Definition = <<ColumnDef(col_i, "String", FALSE), ColumnDef(col_v, "Int32", TRUE)>>
    /\ Len(config.lines) = 3 /\ config.sql.k = "Ok"
    /\ RejectedWith(InvalidMultilineType(col_v, "Int32"))

\* the lines the program was given, and the positions of the matching ones
Lines == config.lines
MatchAt == {n \in 1..Len(Lines) : Lines[n].matched}
\* the number of matching lines before position n
MatchesBefore(n) == Cardinality({m \in MatchAt : m < n})
\* the position of the k-th matching line
KthMatch(k) == CHOOSE n \in MatchAt : MatchesBefore(n) = k - 1

RECURSIVE TextsAt(_, _)
\* the texts of the lines at the positions at, in input order
TextsAt(at, n) ==
    IF n > Len(Lines) THEN <<>>
    ELSE (IF n \in at THEN <<Lines[n].text>> ELSE <<>>) \o TextsAt(at, n + 1)

\* the non-matching lines that follow the k-th matching line directly
FollowersOf(k) == {n \in 1..Len(Lines) : n \notin MatchAt /\ MatchesBefore(n) = k}

\* Engine::execute has parsed the lines (or was aborted parsing them)
Parsed == config.k = "Config" /\ (pc = "filter" \/ outcome.k = "Panic")

\* the records are those of the matching lines, in input order, each with the
\* non-matching lines that follow it where the schema has a multiline column
RecordsOfMatchingLines ==
    /\ outcome.k # "Panic"
    /\ Len(events) = Cardinality(MatchAt)
    /\ \A k \in 1..Len(events) :
         /\ DOMAIN events[k].values = {schema[n].name : n \in 1..Len(schema)}
         /\ \A n \in 1..Len(schema) :
              events[k].values[schema[n].name]
                = typed_value(schema[n].type, Lines[KthMatch(k)].captures[schema[n].name]).v
         /\ events[k].extra_text = (IF MultilineAt # {} THEN TextsAt(FollowersOf(k), 1) ELSE <<>>)

\* C24: Parser::parse yields one record per matching line, in input order.
\* With a multiline column every non-matching line is appended, in order, to
\* the extra text of the most recent matching record (those before the first
\* match are dropped); without one the non-matching lines are dropped and no
\* record has extra text.
C24_ParseRecords == Parsed => RecordsOfMatchingLines

\* the fields of the Engine
EngineFields == <<statement, schema, multiline_column, engine_columns>>

\* C25: the engine is stateless across executions: executing one Engine twice
\* on the same input returns the same outcome, and an execution never changes
\* the Engine's query, schema or column list.
C25_Stateless ==
    /\ [](pc = "done" => \A n \in 1..Len(runs) : runs[n].input = input => runs[n].returned = Returned)
    /\ [][EngineFields' = EngineFields]_vars

\* the engine returns after its third execution, on the input of its first
\* and not of its second, with a column list other than the schema's
C25_Witness ==
    /\ pc = "done" /\ Len(runs) = 2
    /\ runs[1].input = input /\ runs[2].input # input
    /\ runs[2].returned.k = "Ok" /\ runs[2].returned.columns # engine_columns
    /\ outcome.k = "Ok"

\* what the per-comparison primitive returns for the comparison of the query
\* on the records Filter received (a literal-first comparison reaches it with
\* the operator mirrored)
PrimitiveResult ==
    filter_column_with_literal(schema, Received.events, SelColumn(Sel), SelLiteral(Sel),
                               IF ColumnFirst(Sel) THEN Sel.op ELSE Mirror(Sel.op))

\* the k-th smallest element of a set of positions
KthOf(idx, k) == CHOOSE n \in idx : Cardinality({m \in idx : m < n}) = k - 1

\* C26: filtering is two-phase.  The per-comparison primitive returns a set of
\* positions of the records it was given, the positions of exactly the records
\* that satisfy the comparison; Filter returns the records at those positions,
\* in ascending position order, each as it was received.
C26_TwoPhase ==
    (JustRan("Filter") /\ filterImpl = "filter.rs" /\ IsSelect /\ IsComparison(Sel)
       /\ PrimitiveResult.k = "Ok")
        => LET idx == PrimitiveResult.indexes IN
           /\ idx \subseteq 1..Len(Received.events)
           /\ Covered(Sel) => idx = {n \in 1..Len(Received.events) : Satisfies(Received.events[n], Sel)}
           /\ ReturnedOk
           /\ Len(events) = Cardinality(idx)
           /\ \A k \in 1..Len(events) : events[k] = Received.events[KthOf(idx, k)]

\* two different records both satisfy v <= 'b' and come back in their order
C26_Witness ==
    /\ JustRan("Filter") /\ filterImpl = "filter.rs" /\ IsSelect /\ Covered(Sel)
    /\ PrimitiveResult.k = "Ok" /\ PrimitiveResult.indexes = {1, 2}
    /\ Len(events) = 2 /\ events[1] # events[2]

\* C27: after Project returns Ok, for any SELECT list, all records of the
\* result have one and the same key set, the set of the names in the result's
\* column list.
C27_KeysAreColumns ==
    (JustRan("Project") /\ IsSelect /\ ReturnedOk)
        => \A n \in 1..Len(events) :
             DOMAIN events[n].values = {columns[k] : k \in 1..Len(columns)}

\* the WHERE clause compares a column with a literal that is not of the
\* syntactic kind of the column's declared type
KindMismatch ==
    IsComparison(Sel) /\ SelLiteral(Sel).k # ExpectedKind(DeclaredType(SelColumn(Sel)))

\* C28: whether an execution fails with TypeMismatch or InvalidQuery is
\* determined by the query and the schema alone: a WHERE literal whose kind
\* mismatches the column's declared type makes Filter fail with TypeMismatch,
\* and an unsupported SELECT item makes Project fail with InvalidQuery, on
\* every record set that reaches the stage, the empty one included.
C28_ErrorsIgnoreRecords ==
    /\ (JustRan("Filter") /\ IsSelect /\ KindMismatch) => outcome.k = "TypeMismatch"
    /\ (JustRan("Project") /\ IsSelect
          /\ \E k \in 1..Len(Projection) : ~IsSupportedItem(Projection[k]))
         => outcome = InvalidQuery(statement)

\* the schema-type lookup resolves the WHERE column: some schema column has
\* its name, letter case aside
Resolves(column) == \E n \in 1..Len(schema) : eq_ignore_ascii_case(schema[n].name, column)
\* the name of the schema column it resolves to
ResolvedName(column) ==
    schema[CHOOSE n \in 1..Len(schema) :
             /\ eq_ignore_ascii_case(schema[n].name, column)
             /\ \A m \in 1..(n - 1) : ~eq_ignore_ascii_case(schema[m].name, column)].name
\* the comparison with its column spelled as the schema spells it
AsSpelledInSchema(sel) ==
    IF ColumnFirst(sel)
    THEN BinaryOp(ExprIdentifier(ResolvedName(sel.left.value)), sel.op, sel.right)
    ELSE BinaryOp(sel.left, sel.op, ExprIdentifier(ResolvedName(sel.right.value)))

\* C29: whenever the schema-type lookup resolves the WHERE column, the
\* comparison is filtered as the one that spells the column as the schema does:
\* Filter (engine/filter.rs) returns the same records or the same error, and
\* does not abort where that one does not.
C29_CaseInsensitiveColumn ==
    (JustRan("Filter") /\ filterImpl = "filter.rs" /\ IsSelect
       /\ (ColumnFirst(Sel) \/ LiteralFirst(Sel)) /\ Resolves(SelColumn(Sel)))
        => LET exact == filter(schema, Received.columns, Received.events,
                               WithSelection(statement, AsSpelledInSchema(Sel)))
           IN IF exact.k = "Ok"
              THEN ReturnedOk /\ events = exact.events /\ columns = exact.columns
              ELSE outcome.k = exact.k

\* the SELECT list names one source column in more than one item
RepeatsSource(list) ==
    \E j, k \in 1..Len(list) : j # k /\ list[j].expr.value = list[k].expr.value

\* C30: when a SELECT list of column items references one source column in
\* more than one item, Project returns Ok and every output name is bound, in
\* every record, to the value the record had under its source column.
C30_RepeatedSource ==
    (JustRan("Project") /\ IsSelect /\ IsColumnList(Projection) /\ RepeatsSource(Projection))
        => /\ ReturnedOk
           /\ Len(events) = Len(Received.events)
           /\ \A n \in 1..Len(events) : \A k \in 1..Len(Projection) :
                /\ OutName(Projection[k]) \in DOMAIN events[n].values
                /\ events[n].values[OutName(Projection[k])]
                     = Received.events[n].values[Projection[k].expr.value]

====
